---- MODULE Spec2Model ----
(***************************************************************************)
(* Note synchronisation layer of the NotesKeeping app.                     *)
(*                                                                         *)
(*   NotesProvider         src/src/context/NotesContext.tsx   (1-408)      *)
(*   FirestoreRESTService  src/src/components/FirebaseImage.tsx (77-466)   *)
(*   storageAdapter        src/src/utils/storageAdapter.ts                 *)
(*   session glue          HomeScreen.tsx, SplashScreen.tsx, AuthScreen    *)
(*                                                                         *)
(* Every context operation is one action: React runs a handler to its end  *)
(* on the values its closure captured, so the unprimed variables are the   *)
(* captured values and the primed ones the state after the handler.        *)
(* The environment decides, per operation, whether an HTTP request fails   *)
(* and whether the device storage rejects writes.                          *)
(***************************************************************************)
EXTENDS Integers, Sequences, FiniteSets, TLC

\* ---------------------------------------------------------------- bounds
MaxAdds == 2          \* notes created in one run (uuids 1..MaxAdds)
MaxPosts == 1         \* documents the server names in one run
MaxEvents == 1        \* updates, sign-outs and failing operations in one run
MaxRestarts == 1      \* restarts of the app in one run

\* ------------------------------------------------------------- constants
NoUser == "none"      \* firebaseAuth.currentUser === null / field absent
Uid == "u1"           \* the uid of the one account of the model
NewTitle == "a"       \* title/content/timestamp/category of a new note
EditedTitle == "b"    \* ... and of an edited one

VARIABLES
    notes,              \* useState notes (public partition)
    privateNotes,       \* useState privateNotes
    loadingNotes,       \* useState loadingNotes
    syncWithCloud,      \* useState syncWithCloud
    isUserSignedIn,     \* useState isUserSignedIn
    cacheNotes,         \* storage key noteskeeping_notes
    cachePrivateNotes,  \* storage key noteskeeping_private_notes
    syncKey,            \* storage key noteskeeping_sync_enabled
    authState,          \* AsyncStorage noteskeeping_auth_state = 'true'
    userSignedOut,      \* AsyncStorage user_signed_out = 'true'
    currentUser,        \* firebaseAuth.currentUser (uid or NoUser)
    remoteNotes,        \* Firestore collection notes
    remotePrivateNotes, \* Firestore collection privateNotes
    nextUuid,           \* next uuid.v4() of the editor
    nextDocId,          \* next server-generated document name
    phase,              \* "mounted": provider constructed, effect not run
    listenerPending,    \* onAuthStateChanged registered, first call pending
    splashPending,      \* SplashScreen.checkAuth not yet run
    nEvents,            \* updates, sign-outs and failing operations so far
    nRestarts,          \* restarts so far
    unsynced,           \* history: notes kept locally after a failed remote write
    createdPrivate,     \* history: ids given to notes created with isPrivate
    last,               \* what the last operation was given and did
    call,               \* a call of a function of FirestoreRESTService
    pending,            \* the context operations that are awaiting something
    landed              \* history: the notes finished additions have placed

vars == <<notes, privateNotes, loadingNotes, syncWithCloud, isUserSignedIn,
          cacheNotes, cachePrivateNotes, syncKey, authState, userSignedOut,
          currentUser, remoteNotes, remotePrivateNotes, nextUuid, nextDocId,
          phase, listenerPending, splashPending, nEvents, nRestarts,
          unsynced, createdPrivate, last, call, pending, landed>>

memVars == <<notes, privateNotes, loadingNotes, syncWithCloud, isUserSignedIn>>
cacheVars == <<cacheNotes, cachePrivateNotes>>
sessionVars == <<authState, userSignedOut, currentUser>>
remoteVars == <<remoteNotes, remotePrivateNotes, nextDocId>>
histVars == <<unsynced, createdPrivate>>

\* ------------------------------------------------------------ data model
\* App.tsx Note: title stands for title, content, timestamp and category.
Note(i, p, t) == [id |-> i, isPrivate |-> p, title |-> t]

\* A storage key is absent (getItem returns null) or holds a JSON list.
Absent == [has |-> FALSE, val |-> <<>>]
Stored(list) == [has |-> TRUE, val |-> list]

\* A Firestore document: its name (last path segment) and its fields.
Doc(nm, n, uid) ==
    [name |-> nm, id |-> n.id, isPrivate |-> n.isPrivate, title |-> n.title,
     userId |-> uid]

\* ---------------------------------------------------------- list helpers
MapReplace(list, n) ==
    [i \in 1..Len(list) |-> IF list[i].id = n.id THEN n ELSE list[i]]

Ids(list) == {list[i].id : i \in 1..Len(list)}
Has(list, n) == \E i \in 1..Len(list) : list[i] = n

\* Array.prototype.find over [...notes, ...privateNotes]
FindNote(i) ==
    LET all == notes \o privateNotes
        hits == {k \in 1..Len(all) : all[k].id = i}
    IN IF hits = {} THEN <<>>
       ELSE <<all[CHOOSE k \in hits : \A j \in hits : k <= j]>>

\* ------------------------------------------------ FirestoreRESTService
\* convertFirestoreDocToObject: result.id starts as the document name and
\* is then overwritten by the stored field id, like every other field.
convertFirestoreDocToObject(d) ==
    [id |-> d.id, isPrivate |-> d.isPrivate, title |-> d.title,
     userId |-> d.userId]

\* The projection of a fetched object on the Note fields the app uses.
AsNote(o) == Note(o.id, o.isPrivate, o.title)

\* Firestore lists a collection in document-name order.
RECURSIVE ByName(_)
ByName(docs) ==
    IF docs = {} THEN <<>>
    ELSE LET d == CHOOSE x \in docs : \A y \in docs : x.name <= y.name
         IN <<d>> \o ByName(docs \ {d})

\* fetchCollectionViaREST: [] without a user and [] when the request fails
\* (both the non-OK branch and the catch return an empty list).
fetchCollectionViaREST(coll, fails) ==
    IF currentUser = NoUser THEN <<>>
    ELSE IF fails THEN <<>>
    ELSE LET objs == [i \in 1..Len(ByName(coll)) |->
                         convertFirestoreDocToObject(ByName(coll)[i])]
         IN SelectSeq(objs, LAMBDA o : o.userId = currentUser)

FetchRequestsAlways == IF currentUser = NoUser THEN 1 ELSE 1
FetchRequests == IF currentUser = NoUser THEN 0 ELSE 1

ToNotes(objs) == [i \in 1..Len(objs) |-> AsNote(objs[i])]

\* getNotes / getPrivateNotes; coll is the collection as the server holds
\* it when the request arrives.
getNotes(coll, fails) ==
    IF currentUser = NoUser THEN <<>>
    ELSE ToNotes(SelectSeq(fetchCollectionViaREST(coll, fails),
            LAMBDA o : o.userId = currentUser /\ o.isPrivate = FALSE))

getPrivateNotes(coll, fails) ==
    IF currentUser = NoUser THEN <<>>
    ELSE ToNotes(SelectSeq(fetchCollectionViaREST(coll, fails),
            LAMBDA o : o.userId = currentUser /\ o.isPrivate = TRUE))

\* storeDataViaREST with a documentId: PATCH replaces the whole document
\* (no update mask) or creates it under that name.
PatchDoc(coll, nm, n, uid) ==
    {d \in coll : d.name # nm} \cup {Doc(nm, n, uid)}

\* storeDataViaREST without a documentId: POST, the server picks the name.
PostDoc(coll, nm, n, uid) == coll \cup {Doc(nm, n, uid)}

\* deleteDocumentViaREST
DeleteDoc(coll, nm) == {d \in coll : d.name # nm}

\* note.isPrivate ? PRIVATE_NOTES_COLLECTION : NOTES_COLLECTION, the choice
\* addNote, updateNote, deleteNote and batchSyncNotes make (TRUE: private).
CollectionOfPublic(n) == FALSE
CollectionOf(n) == n.isPrivate

\* if (syncWithCloud && isUserSignedIn): the branch of addNote, updateNote
\* and deleteNote that talks to Firestore.
RemotePathIgnoringSession == syncWithCloud
RemotePath == syncWithCloud /\ isUserSignedIn

\* Where every operation is one action, the screens that issue operations
\* are shown once the start-up is over: loadNotes has run, the listener has
\* had its first call and the splash screen has checked the session.
\* (Operations that overlap each other are the subject of SpecFlight.)
Ready == phase = "ready" /\ ~listenerPending /\ ~splashPending

\* What the environment may do to one operation: fail an HTTP request
\* (network error or non-OK response), reject the writes to the storage.
RequestFails == IF nEvents < MaxEvents THEN BOOLEAN ELSE {FALSE}
StorageFails == IF nEvents < MaxEvents THEN BOOLEAN ELSE {FALSE}

\* ------------------------------------------------------------ observation
NoNote == Note(0, FALSE, NewTitle)
\*   op, note     the operation and its argument
\*   raised, error whether it threw to its caller, and what
\*   reqs         the HTTP requests it sent
\*   remoteFailed the remote part did not do its work (a request failed, or
\*                the client refused for want of a user)
\*   requestFailed, storageFailed   what the environment failed
\*   saved        addNote: the note it put into the list
\*   value        handleSyncWithCloud: its argument
\*   clientError  what FirestoreRESTService threw to the context, if anything
\*   fetches      the calls of getNotes / getPrivateNotes it made
\*   gets         the GET requests those calls sent
\*   failedWrites the PATCHes of batchSyncNotes that failed
Obs(op, n, raised, err, reqs, rfail, qfail, sfail) ==
    [op |-> op, note |-> n, saved |-> NoNote, value |-> FALSE,
     raised |-> raised, error |-> err, reqs |-> reqs,
     remoteFailed |-> rfail, requestFailed |-> qfail, storageFailed |-> sfail,
     clientError |-> "none", fetches |-> 0, gets |-> 0, failedWrites |-> 0]

\* What addNote / updateNote / deleteNote of FirestoreRESTService throw:
\* 'User not authenticated' before any request, msg when the request failed.
clientThrows(remotePath, noUser, remoteOk, msg) ==
    IF remotePath /\ ~remoteOk
    THEN (IF noUser THEN "User not authenticated" ELSE msg)
    ELSE "none"
Quiet(op) == Obs(op, NoNote, FALSE, "none", 0, FALSE, FALSE, FALSE)

\* No function of the client is being looked at on its own.
NoCall == [fn |-> "none"]

\* ------------------------------------------------------------------ Init
\* The state right after NotesProvider is constructed (useState), with what
\* the device holds: nothing on a fresh install; on a returning one the
\* session flag SplashScreen wrote in an earlier run and the caches loadNotes
\* wrote, while the Firebase session has expired since.  The returning start
\* is itself a restart for the budget of the run.
Init ==
    /\ notes = <<>>
    /\ privateNotes = <<>>
    /\ loadingNotes = TRUE
    /\ syncWithCloud = TRUE
    /\ isUserSignedIn = FALSE
    /\ \E returning \in BOOLEAN :
          /\ authState = returning
          /\ cacheNotes = (IF returning THEN Stored(<<>>) ELSE Absent)
          /\ cachePrivateNotes = (IF returning THEN Stored(<<>>) ELSE Absent)
          /\ nRestarts = (IF returning THEN MaxRestarts ELSE 0)
    /\ syncKey = "absent"
    /\ userSignedOut = FALSE
    /\ currentUser = NoUser
    /\ remoteNotes = {}
    /\ remotePrivateNotes = {}
    /\ nextUuid = 1
    /\ nextDocId = 1
    /\ phase = "mounted"
    /\ listenerPending = TRUE
    /\ splashPending = TRUE
    /\ nEvents = 0
    /\ unsynced = {}
    /\ createdPrivate = {}
    /\ last = Quiet("init")
    /\ call = NoCall
    /\ pending = {}
    /\ landed = {}

\* The app process is killed and started again: the provider is constructed
\* anew, storage and the remote store survive, the Firebase session
\* survives or has expired.
Restart ==
    /\ Ready
    /\ notes' = <<>>
    /\ privateNotes' = <<>>
    /\ loadingNotes' = TRUE
    /\ syncWithCloud' = TRUE
    /\ isUserSignedIn' = FALSE
    /\ \E u \in {currentUser, NoUser} : currentUser' = u
    /\ phase' = "mounted"
    /\ listenerPending' = TRUE
    /\ splashPending' = TRUE
    /\ last' = Quiet("restart")
    /\ UNCHANGED <<cacheVars, syncKey, authState, userSignedOut, remoteVars,
                   nextUuid, histVars>>

\* The loading flag when loadNotes / refreshNotes end: both set it to false
\* in a finally block, whether or not something threw on the way.
loadingWithoutFinally(threw) == threw
loadingAfter(threw) == FALSE

\* loadNotes, the mount effect of NotesProvider.
\*   f1, f2: the fetch of notes / privateNotes fails;  sf: storage writes fail
loadNotes(f1, f2, sf) ==
    LET shouldSync == syncKey # "false" /\ ~userSignedOut
        userSignedIn == (currentUser # NoUser \/ authState) /\ ~userSignedOut
        remotePath == shouldSync /\ userSignedIn
        fN == getNotes(remoteNotes, f1)
        fP == getPrivateNotes(remotePrivateNotes, f2)
        \* local fallback (also entered from the inner catch)
        locN == IF cacheNotes.has THEN cacheNotes.val ELSE <<>>
        locP == IF cachePrivateNotes.has THEN cachePrivateNotes.val ELSE <<>>
        \* a failing setItem of the notes key throws to the outer catch
        \* before the private key is looked at
        stopped == sf /\ ~cacheNotes.has
    IN
    /\ phase = "mounted"
    /\ (f1 \/ f2) => (remotePath /\ currentUser # NoUser)
    /\ phase' = "ready"
    /\ syncWithCloud' = shouldSync
    /\ isUserSignedIn' = userSignedIn
    /\ loadingNotes' = loadingAfter(sf)
    /\ IF remotePath /\ ~sf
       THEN /\ notes' = fN
            /\ privateNotes' = fP
            /\ cacheNotes' = Stored(fN)
            /\ cachePrivateNotes' = Stored(fP)
       ELSE /\ notes' = locN
            /\ privateNotes' = IF stopped
                               THEN (IF remotePath THEN fP ELSE privateNotes)
                               ELSE locP
            /\ cacheNotes' = IF sf THEN cacheNotes ELSE Stored(locN)
            /\ cachePrivateNotes' = IF sf THEN cachePrivateNotes
                                    ELSE Stored(locP)
    /\ last' = [Obs("load", NoNote, FALSE, "none",
                    IF remotePath THEN 2 * FetchRequests ELSE 0,
                    remotePath /\ (f1 \/ f2 \/ currentUser = NoUser),
                    f1 \/ f2, sf)
                   EXCEPT !.fetches = IF remotePath THEN 2 ELSE 0,
                          !.gets = IF remotePath THEN 2 * FetchRequests ELSE 0]
    /\ UNCHANGED <<syncKey, sessionVars, remoteVars, nextUuid,
                   listenerPending, splashPending, histVars>>

LoadNotes == \E f1, f2 \in RequestFails, sf \in StorageFails : loadNotes(f1, f2, sf)

\* The write of a storage key by saveNotes / savePrivateNotes / setItem:
\* a rejected write leaves the key as it was.
Written(key, list, sf) == IF sf THEN key ELSE Stored(list)

\* refreshNotes past its guard, reading the collections rn / rp.
Refreshed(rn, rp, f1, f2, sf) ==
    /\ notes' = getNotes(rn, f1)
    /\ privateNotes' = getPrivateNotes(rp, f2)
    /\ cacheNotes' = Written(cacheNotes, getNotes(rn, f1), sf)
    /\ cachePrivateNotes' =
           Written(cachePrivateNotes, getPrivateNotes(rp, f2), sf)
    /\ loadingNotes' = loadingAfter(sf)

\* if (!syncWithCloud || !isUserSignedIn) return;
refreshSkipsWhenSyncOff == ~syncWithCloud
refreshReturnsEarly == ~syncWithCloud \/ ~isUserSignedIn

\* refreshNotes
refreshNotes(f1, f2, sf) ==
    /\ Ready
    /\ (f1 \/ f2) => (syncWithCloud /\ isUserSignedIn /\ currentUser # NoUser)
    /\ sf => (syncWithCloud /\ isUserSignedIn)
    /\ IF refreshReturnsEarly
       THEN /\ UNCHANGED <<notes, privateNotes, loadingNotes, cacheVars>>
            /\ last' = Quiet("refresh")
       ELSE /\ Refreshed(remoteNotes, remotePrivateNotes, f1, f2, sf)
            /\ last' = [Obs("refresh", NoNote, FALSE, "none",
                            2 * FetchRequests,
                            f1 \/ f2 \/ currentUser = NoUser, f1 \/ f2, sf)
                           EXCEPT !.fetches = 2, !.gets = 2 * FetchRequests]
    /\ UNCHANGED <<syncWithCloud, isUserSignedIn, syncKey, sessionVars,
                   remoteVars, nextUuid, phase, listenerPending,
                   splashPending, histVars>>

RefreshNotes == \E f1, f2 \in RequestFails, sf \in StorageFails : refreshNotes(f1, f2, sf)

\* Whether addNote throws: the catch applies the note locally and rethrows;
\* the local branch awaits its save; the remote-success branch does not
\* await the save, so a rejected write is an unhandled rejection and not an
\* error of addNote.
addNoteSwallows(remotePath, remoteOk, sf) == ~remoteOk /\ sf
addNoteRaises(remotePath, remoteOk, sf) ==
    (remotePath /\ ~remoteOk) \/ (~remoteOk /\ sf)

\* The name the server gives the k-th document it creates; uuids are
\* positive, server names negative.
ServerName(k) == 0 - k

\* addNote(n); n carries a fresh uuid from NoteEditorScreen.handleSave.
\*   fails: the POST fails;  sf: storage writes fail
addNote(n, fails, sf) ==
    LET remotePath == RemotePath
        noUser == currentUser = NoUser
        remoteOk == remotePath /\ ~noUser /\ ~fails
        docName == ServerName(nextDocId)
        savedNote == [n EXCEPT !.id = docName]
        kept == IF remoteOk THEN savedNote ELSE n
        raised == addNoteRaises(remotePath, remoteOk, sf)
        err == IF ~raised THEN "none"
               ELSE IF sf THEN "storage"
               ELSE IF noUser THEN "User not authenticated"
               ELSE "Failed to save note"
    IN
    /\ Ready
    /\ n.id = nextUuid
    /\ nextUuid <= MaxAdds
    /\ remoteOk => nextDocId <= MaxPosts
    /\ fails => (remotePath /\ ~noUser)
    /\ nextUuid' = nextUuid + 1
    /\ IF n.isPrivate
       THEN /\ privateNotes' = <<kept>> \o privateNotes
            /\ cachePrivateNotes' =
                   Written(cachePrivateNotes, <<kept>> \o privateNotes, sf)
            /\ UNCHANGED <<notes, cacheNotes>>
       ELSE /\ notes' = <<kept>> \o notes
            /\ cacheNotes' = Written(cacheNotes, <<kept>> \o notes, sf)
            /\ UNCHANGED <<privateNotes, cachePrivateNotes>>
    /\ IF remoteOk
       THEN /\ nextDocId' = nextDocId + 1
            /\ IF CollectionOf(n)
               THEN /\ remotePrivateNotes' =
                        PostDoc(remotePrivateNotes, docName, n, currentUser)
                    /\ UNCHANGED remoteNotes
               ELSE /\ remoteNotes' =
                        PostDoc(remoteNotes, docName, n, currentUser)
                    /\ UNCHANGED remotePrivateNotes
       ELSE UNCHANGED remoteVars
    /\ last' = [Obs("add", n, raised, err,
                    IF remotePath /\ ~noUser THEN 1 ELSE 0,
                    remotePath /\ ~remoteOk, fails, sf)
                   EXCEPT !.saved = kept,
                          !.clientError = clientThrows(remotePath, noUser,
                                              remoteOk, "Failed to save note")]
    /\ unsynced' = IF remotePath /\ ~remoteOk /\ ~sf
                   THEN unsynced \cup {n} ELSE unsynced
    /\ createdPrivate' = IF n.isPrivate
                         THEN createdPrivate \cup {n.id, kept.id}
                         ELSE createdPrivate
    /\ UNCHANGED <<loadingNotes, syncWithCloud, isUserSignedIn, syncKey,
                   sessionVars, phase, listenerPending, splashPending>>

AddNote ==
    \E p \in BOOLEAN, fails \in RequestFails, sf \in StorageFails :
        addNote(Note(nextUuid, p, NewTitle), fails, sf)

\* Whether updateNote / deleteNote throw: their catch applies the mutation to
\* the list, awaits the save and rethrows; the success and local branches
\* await the save too.
mutationSwallows(remotePath, remoteOk, sf) == sf
mutationRaises(remotePath, remoteOk, sf) == (remotePath /\ ~remoteOk) \/ sf

\* updateNote(n); n is built by handleSave from the note being edited.
\*   fails: the PATCH fails;  sf: storage writes fail
updateNote(n, fails, sf) ==
    LET remotePath == RemotePath
        noUser == currentUser = NoUser
        remoteOk == remotePath /\ ~noUser /\ ~fails
        raised == mutationRaises(remotePath, remoteOk, sf)
        applied == Has(MapReplace(IF n.isPrivate THEN privateNotes ELSE notes,
                                  n), n)
        others == {x \in unsynced : x.id # n.id}
        err == IF ~raised THEN "none"
               ELSE IF sf THEN "storage"
               ELSE IF noUser THEN "User not authenticated"
               ELSE "Failed to update note"
    IN
    /\ Ready
    /\ fails => (remotePath /\ ~noUser)
    /\ IF n.isPrivate
       THEN /\ privateNotes' = MapReplace(privateNotes, n)
            /\ cachePrivateNotes' =
                   Written(cachePrivateNotes, MapReplace(privateNotes, n), sf)
            /\ UNCHANGED <<notes, cacheNotes>>
       ELSE /\ notes' = MapReplace(notes, n)
            /\ cacheNotes' = Written(cacheNotes, MapReplace(notes, n), sf)
            /\ UNCHANGED <<privateNotes, cachePrivateNotes>>
    \* noteData = {...note, updatedAt}: the document is replaced by one
    \* without a userId field
    /\ IF remoteOk
       THEN IF CollectionOf(n)
            THEN /\ remotePrivateNotes' =
                        PatchDoc(remotePrivateNotes, n.id, n, NoUser)
                 /\ UNCHANGED <<remoteNotes, nextDocId>>
            ELSE /\ remoteNotes' = PatchDoc(remoteNotes, n.id, n, NoUser)
                 /\ UNCHANGED <<remotePrivateNotes, nextDocId>>
       ELSE UNCHANGED remoteVars
    /\ last' = [Obs("update", n, raised, err,
                    IF remotePath /\ ~noUser THEN 1 ELSE 0,
                    remotePath /\ ~remoteOk, fails, sf)
                   EXCEPT !.clientError = clientThrows(remotePath, noUser,
                                            remoteOk, "Failed to update note")]
    /\ unsynced' = IF remotePath /\ ~remoteOk /\ ~sf /\ applied
                   THEN others \cup {n} ELSE others
    /\ UNCHANGED createdPrivate
    /\ UNCHANGED <<loadingNotes, syncWithCloud, isUserSignedIn, syncKey,
                   sessionVars, nextUuid, phase, listenerPending,
                   splashPending>>

\* The editor is opened on a note of one of the lists, keeps its id, may
\* flip the privacy switch and leaves the edited text behind.
UpdateNote ==
    \E i \in Ids(notes) \cup Ids(privateNotes), p \in BOOLEAN,
       fails \in RequestFails, sf \in StorageFails :
        updateNote(Note(i, p, EditedTitle), fails, sf)

\* deleteNote when find returns undefined: throw new Error('Note not found')
\* before anything else is done.
deleteNoteIgnoresMissing(i) ==
    [Quiet("delete") EXCEPT !.note = Note(i, FALSE, NewTitle)]
deleteNoteMissing(i) ==
    Obs("delete", Note(i, FALSE, NewTitle), TRUE, "Note not found", 0,
        FALSE, FALSE, FALSE)

\* deleteNote(i)
\*   fails: the DELETE fails;  sf: storage writes fail
deleteNote(i, fails, sf) ==
    LET found == FindNote(i)
        priv == found[1].isPrivate
        remotePath == RemotePath
        noUser == currentUser = NoUser
        remoteOk == remotePath /\ ~noUser /\ ~fails
        raised == mutationRaises(remotePath, remoteOk, sf)
        err == IF ~raised THEN "none"
               ELSE IF sf THEN "storage"
               ELSE IF noUser THEN "User not authenticated"
               ELSE "Failed to delete note"
    IN
    /\ Ready
    /\ fails => (found # <<>> /\ remotePath /\ ~noUser)
    /\ sf => found # <<>>
    /\ IF found = <<>>
       THEN /\ UNCHANGED <<notes, privateNotes, cacheVars, remoteVars>>
            /\ last' = deleteNoteMissing(i)
            /\ UNCHANGED unsynced
       ELSE /\ IF priv
               THEN /\ privateNotes' =
                        SelectSeq(privateNotes, LAMBDA x : x.id # i)
                    /\ cachePrivateNotes' = Written(cachePrivateNotes,
                        SelectSeq(privateNotes, LAMBDA x : x.id # i), sf)
                    /\ UNCHANGED <<notes, cacheNotes>>
               ELSE /\ notes' = SelectSeq(notes, LAMBDA x : x.id # i)
                    /\ cacheNotes' = Written(cacheNotes,
                        SelectSeq(notes, LAMBDA x : x.id # i), sf)
                    /\ UNCHANGED <<privateNotes, cachePrivateNotes>>
            /\ unsynced' = {x \in unsynced : x.id # i}
            /\ IF remoteOk
               THEN IF CollectionOf(found[1])
                    THEN /\ remotePrivateNotes' =
                                DeleteDoc(remotePrivateNotes, i)
                         /\ UNCHANGED <<remoteNotes, nextDocId>>
                    ELSE /\ remoteNotes' = DeleteDoc(remoteNotes, i)
                         /\ UNCHANGED <<remotePrivateNotes, nextDocId>>
               ELSE UNCHANGED remoteVars
            /\ last' = [Obs("delete", found[1], raised, err,
                            IF remotePath /\ ~noUser THEN 1 ELSE 0,
                            remotePath /\ ~remoteOk, fails, sf)
                           EXCEPT !.clientError =
                               clientThrows(remotePath, noUser, remoteOk,
                                            "Failed to delete note")]
    /\ UNCHANGED <<loadingNotes, syncWithCloud, isUserSignedIn, syncKey,
                   sessionVars, nextUuid, phase, listenerPending,
                   splashPending, createdPrivate>>

\* The ids a caller can name: the uuids of the editor and the server names.
AllIds == (1..MaxAdds) \cup {ServerName(k) : k \in 1..MaxPosts}

DeleteNote ==
    \E i \in AllIds, fails \in RequestFails, sf \in StorageFails :
        deleteNote(i, fails, sf)

\* batchSyncNotes(list): one PATCH per note, under the note's own id, into
\* the collection its isPrivate names; the results of storeDataViaREST are
\* not looked at.  ok: the positions whose PATCH succeeds.  The requests of
\* a chunk run in parallel, so of several writes to one document any one
\* may land last: win holds the position that does.  A chunk is started
\* when Promise.all of the one before has settled, so a write of a later
\* chunk lands after the writes of the earlier ones.
chunkSize == 10
ChunkOf(k) == (k - 1) \div chunkSize

Winners(list, ok, win) ==
    /\ win \subseteq ok
    /\ \A w \in win, k \in ok :
           (/\ list[w].id = list[k].id
            /\ CollectionOf(list[w]) = CollectionOf(list[k]))
               => ChunkOf(k) <= ChunkOf(w)
    /\ \A k \in ok : \E w \in win :
           /\ list[w].id = list[k].id
           /\ CollectionOf(list[w]) = CollectionOf(list[k])
    /\ \A v, w \in win :
           (/\ list[v].id = list[w].id
            /\ CollectionOf(list[v]) = CollectionOf(list[w]))
               => v = w

\* storeDataViaREST(collectionName, {...}, note.id): the third argument
\* makes it a PATCH of the document named by the note's id.
BatchIntoPosting(coll, list, win, p) ==
    coll \cup {Doc(ServerName(Cardinality(coll) + w), list[w], currentUser) :
                 w \in {v \in win : CollectionOf(list[v]) = p}}
BatchInto(coll, list, win, p) ==
    {d \in coll :
        \A w \in win : ~(CollectionOf(list[w]) = p /\ list[w].id = d.name)}
    \cup {Doc(list[w].id, list[w], currentUser) :
             w \in {v \in win : CollectionOf(list[v]) = p}}

batchSyncNotes(rn, rp, list, win) ==
    [n |-> BatchInto(rn, list, win, FALSE), p |-> BatchInto(rp, list, win, TRUE)]

\* if (value && isUserSignedIn): enabling pushes the local notes only when
\* a user is signed in.
pushesWithoutSession(value) == value
pushesOnEnable(value) == value /\ isUserSignedIn

\* handleSyncWithCloud(value), the setSyncWithCloud of the context value.
\*   okN, okP: the PATCHes of the batch push that succeed (winN, winP: the
\*   ones that land last);  f1, f2: the fetches of the reload fail;
\*   sf: storage writes fail
handleSyncWithCloud(value, okN, winN, okP, winP, f1, f2, sf) ==
    LET push == pushesOnEnable(value) /\ ~sf
        afterN == batchSyncNotes(remoteNotes, remotePrivateNotes, notes, winN)
        afterP == batchSyncNotes(afterN.n, afterN.p, privateNotes, winP)
        \* refreshNotes is the function of the render that created this
        \* handler: its guard reads the syncWithCloud of that render
        reload == push /\ syncWithCloud
    IN
    /\ Ready
    /\ Winners(notes, okN, winN)
    /\ Winners(privateNotes, okP, winP)
    /\ ~push => (okN = {} /\ okP = {})
    /\ (push /\ nEvents >= MaxEvents)
           => (okN = DOMAIN notes /\ okP = DOMAIN privateNotes)
    /\ (f1 \/ f2) => (reload /\ currentUser # NoUser)
    /\ syncWithCloud' = value
    /\ syncKey' = IF sf THEN syncKey ELSE (IF value THEN "true" ELSE "false")
    /\ IF push
       THEN /\ remoteNotes' = afterP.n
            /\ remotePrivateNotes' = afterP.p
       ELSE UNCHANGED <<remoteNotes, remotePrivateNotes>>
    /\ IF reload
       THEN Refreshed(afterP.n, afterP.p, f1, f2, sf)
       ELSE UNCHANGED <<notes, privateNotes, loadingNotes, cacheVars>>
    /\ last' = [Obs("setSync", NoNote, FALSE, "none",
                    IF push
                    THEN Len(notes) + Len(privateNotes)
                         + (IF reload THEN 2 * FetchRequests ELSE 0)
                    ELSE 0,
                    push /\ (okN # DOMAIN notes \/ okP # DOMAIN privateNotes
                             \/ f1 \/ f2),
                    push /\ (okN # DOMAIN notes \/ okP # DOMAIN privateNotes
                             \/ f1 \/ f2),
                    sf)
                   EXCEPT !.value = value,
                          !.failedWrites =
                              IF push
                              THEN (Len(notes) - Cardinality(okN))
                                   + (Len(privateNotes) - Cardinality(okP))
                              ELSE 0,
                          !.fetches = IF reload THEN 2 ELSE 0,
                          !.gets = IF reload THEN 2 * FetchRequests ELSE 0]
    /\ UNCHANGED <<isUserSignedIn, sessionVars, nextDocId, nextUuid, phase,
                   listenerPending, splashPending, histVars>>

\* setSyncWithCloud(value) called by a consumer of the context.
SetSyncWithCloud ==
    \E value \in BOOLEAN, f1, f2 \in RequestFails, sf \in StorageFails :
      \E okN \in SUBSET DOMAIN notes, okP \in SUBSET DOMAIN privateNotes :
        \E winN \in SUBSET okN, winP \in SUBSET okP :
          handleSyncWithCloud(value, okN, winN, okP, winP, f1, f2, sf)

\* HomeScreen.handleToggleSync, the onValueChange of the settings switch:
\* the switch shows syncWithCloud, reports the opposite value and is
\* disabled while nobody is signed in and sync is on.
HandleToggleSync ==
    /\ ~(~isUserSignedIn /\ syncWithCloud)
    /\ IF ~syncWithCloud /\ ~isUserSignedIn
       THEN \* Alert 'Account Required', return
            /\ Ready
            /\ last' = Quiet("toggleRefused")
            /\ UNCHANGED <<memVars, cacheVars, syncKey, sessionVars,
                           remoteVars, nextUuid, phase, listenerPending,
                           splashPending, histVars>>
       ELSE \E f1, f2 \in RequestFails, sf \in StorageFails :
              \E okN \in SUBSET DOMAIN notes,
                 okP \in SUBSET DOMAIN privateNotes :
                \E winN \in SUBSET okN, winP \in SUBSET okP :
                  handleSyncWithCloud(~syncWithCloud, okN, winN, okP, winP,
                                      f1, f2, sf)

\* The listener NotesProvider registers with onAuthStateChanged.
Listener(user) ==
    /\ isUserSignedIn' = (user # NoUser)
    /\ syncWithCloud' = IF user = NoUser THEN FALSE ELSE syncWithCloud

\* Its first call, which Firebase makes once after the registration.
AuthStateChanged ==
    /\ listenerPending
    /\ listenerPending' = FALSE
    /\ Listener(currentUser)
    /\ last' = Quiet("auth")
    /\ UNCHANGED <<notes, privateNotes, loadingNotes, cacheVars, syncKey,
                   sessionVars, remoteVars, nextUuid, phase, splashPending,
                   histVars>>

\* AuthScreen.handleLogin / handleCompleteSignup: Firebase sign-in succeeds
\* and calls the listener; no storage key is written.
SignIn ==
    /\ Ready
    /\ currentUser = NoUser
    /\ currentUser' = Uid
    /\ Listener(Uid)
    /\ listenerPending' = FALSE
    /\ last' = Quiet("signIn")
    /\ UNCHANGED <<notes, privateNotes, loadingNotes, cacheVars, syncKey,
                   authState, userSignedOut, remoteVars, nextUuid, phase,
                   splashPending, histVars>>

\* HomeScreen.handlePinSubmit, the sign-out branch: signOut (the listener
\* runs with null), the two AsyncStorage keys, setIsUserSignedIn(false) and
\* setSyncWithCloud(false), which persists the flag.
SignOut ==
    /\ Ready
    /\ currentUser' = NoUser
    /\ authState' = FALSE
    /\ userSignedOut' = TRUE
    /\ isUserSignedIn' = FALSE
    /\ syncWithCloud' = FALSE
    /\ syncKey' = "false"
    /\ loadingNotes' = FALSE
    /\ listenerPending' = FALSE
    /\ last' = Quiet("signOut")
    /\ UNCHANGED <<notes, privateNotes, cacheVars, remoteVars,
                   nextUuid, phase, splashPending, histVars>>

\* SplashScreen.checkAuth, once per start of the app.
CheckAuth ==
    /\ splashPending
    /\ splashPending' = FALSE
    /\ IF userSignedOut
       THEN /\ authState' = FALSE
            /\ UNCHANGED userSignedOut
       ELSE IF currentUser # NoUser \/ authState
       THEN /\ authState' = TRUE
            /\ userSignedOut' = FALSE
       ELSE UNCHANGED <<authState, userSignedOut>>
    /\ last' = Quiet("checkAuth")
    /\ UNCHANGED <<memVars, cacheVars, syncKey, currentUser, remoteVars,
                   nextUuid, phase, listenerPending, histVars>>

\* The budgets of a run: an operation the environment failed, an update
\* and a sign-out each use up one event.
Spend(ev) ==
    /\ nEvents' = nEvents +
           (IF ev \/ last'.requestFailed \/ last'.storageFailed THEN 1 ELSE 0)
    /\ UNCHANGED <<nRestarts, call, pending, landed>>

Next ==
    \/ nRestarts < MaxRestarts /\ Restart
           /\ nRestarts' = nRestarts + 1 /\ UNCHANGED <<nEvents, call, pending, landed>>
    \/ LoadNotes /\ Spend(FALSE)
    \/ RefreshNotes /\ Spend(FALSE)
    \/ AddNote /\ Spend(FALSE)
    \/ nEvents < MaxEvents /\ UpdateNote /\ Spend(TRUE)
    \/ DeleteNote /\ Spend(FALSE)
    \/ SetSyncWithCloud /\ Spend(FALSE)
    \/ HandleToggleSync /\ Spend(FALSE)
    \/ AuthStateChanged /\ Spend(FALSE)
    \/ SignIn /\ Spend(FALSE)
    \/ nEvents < MaxEvents /\ SignOut /\ Spend(TRUE)
    \/ CheckAuth /\ Spend(FALSE)

Spec == Init /\ [][Next]_vars

\* --------------------------------------- the client's functions on their own
\* JavaScript values, by what typeof / instanceof / Array.isArray tell apart.
JsNull == [k |-> "null"]
JsUndefined == [k |-> "undefined"]
JsSymbol == [k |-> "symbol"]            \* neither of the kinds the encoder names
JsInvalidDate == [k |-> "invalidDate"]  \* new Date(NaN)
JsString(s) == [k |-> "string", s |-> s]
JsNumber(n) == [k |-> "number", n |-> n]
JsBoolean(b) == [k |-> "boolean", b |-> b]
JsDate(ms) == [k |-> "date", ms |-> ms]
JsArray(items) == [k |-> "array", items |-> items]
JsObject(props) == [k |-> "object", props |-> props]

\* Date.prototype.toISOString and new Date(text)
toISOString(ms) == [iso |-> ms]
DateOf(text) == JsDate(text.iso)

\* Number(text) of a decimal numeral, given as its digits
RECURSIVE NumberOf(_)
NumberOf(digits) ==
    IF digits = <<>> THEN 0
    ELSE 10 * NumberOf(SubSeq(digits, 1, Len(digits) - 1))
             + digits[Len(digits)]

\* String(value), the fallback of the encoder
StringOf(v) == "Symbol()"

\* convertToFirestoreValue throws where toISOString does (RangeError on an
\* invalid date), in the value or below it; an undefined property is
\* skipped before it is converted.
RECURSIVE encoderThrows(_)
encoderThrows(v) ==
    \/ v.k = "invalidDate"
    \/ v.k = "array" /\ \E i \in 1..Len(v.items) : encoderThrows(v.items[i])
    \/ v.k = "object" /\ \E key \in DOMAIN v.props :
                             /\ v.props[key] # JsUndefined
                             /\ encoderThrows(v.props[key])

\* convertToFirestoreValue / convertObjectToFirestoreFields
RECURSIVE convertToFirestoreValue(_)
RECURSIVE convertObjectToFirestoreFields(_)
convertToFirestoreValue(v) ==
    IF v.k \in {"null", "undefined"} THEN [nullValue |-> "null"]
    ELSE IF v.k = "string" THEN [stringValue |-> v.s]
    ELSE IF v.k = "number" THEN [doubleValue |-> v.n]
    ELSE IF v.k = "boolean" THEN [booleanValue |-> v.b]
    ELSE IF v.k = "date" THEN [timestampValue |-> toISOString(v.ms)]
    ELSE IF v.k = "array"
    THEN [arrayValue |->
            [values |-> [i \in 1..Len(v.items) |->
                            convertToFirestoreValue(v.items[i])]]]
    ELSE IF v.k = "object"
    THEN [mapValue |-> [fields |-> convertObjectToFirestoreFields(v.props)]]
    ELSE [stringValue |-> StringOf(v)]

convertObjectToFirestoreFields(props) ==
    [key \in {x \in DOMAIN props : props[x] # JsUndefined} |->
        convertToFirestoreValue(props[key])]

\* extractValueFromFirestoreField
RECURSIVE extractValueFromFirestoreField(_)
extractValueFromFirestoreField(f) ==
    IF "nullValue" \in DOMAIN f THEN JsNull
    ELSE IF "stringValue" \in DOMAIN f THEN JsString(f.stringValue)
    ELSE IF "doubleValue" \in DOMAIN f THEN JsNumber(f.doubleValue)
    ELSE IF "integerValue" \in DOMAIN f
    THEN JsNumber(NumberOf(f.integerValue))
    ELSE IF "booleanValue" \in DOMAIN f THEN JsBoolean(f.booleanValue)
    ELSE IF "timestampValue" \in DOMAIN f THEN DateOf(f.timestampValue)
    ELSE IF "arrayValue" \in DOMAIN f
    THEN (IF "values" \in DOMAIN f.arrayValue
          THEN JsArray([i \in 1..Len(f.arrayValue.values) |->
                   extractValueFromFirestoreField(f.arrayValue.values[i])])
          ELSE JsArray(<<>>))
    ELSE IF "mapValue" \in DOMAIN f
    THEN LET fields == IF "fields" \in DOMAIN f.mapValue
                       THEN f.mapValue.fields ELSE <<>>
         IN JsObject([key \in DOMAIN fields |->
                         extractValueFromFirestoreField(fields[key])])
    ELSE JsNull

\* The values the calls are tried on: scalars, arrays and objects of
\* scalars, and one more level of nesting over a few of them.
MaxItems == 2
Keys == {"title", "tags"}
SeqsUpTo(S, n) == UNION {[1..m -> S] : m \in 0..n}
Objects(S) == UNION {[D -> S] : D \in SUBSET Keys}

JsScalars ==
    {JsNull, JsUndefined, JsSymbol, JsInvalidDate, JsString("a"),
     JsNumber(0), JsNumber(1), JsBoolean(TRUE), JsBoolean(FALSE), JsDate(0)}
JsFlat ==
    {JsArray(q) : q \in SeqsUpTo(JsScalars, MaxItems)}
        \cup {JsObject(o) : o \in Objects(JsScalars)}
JsInner ==
    {JsArray(q) : q \in SeqsUpTo({JsNull, JsString("a"), JsNumber(1)}, 1)}
        \cup {JsObject(o) : o \in [{"tags"} -> {JsString("a"), JsDate(0)}]}
        \cup {JsObject(<<>>)}
JsNested ==
    {JsArray(<<x>>) : x \in JsInner}
        \cup {JsObject([key \in {"tags"} |-> x]) : x \in JsInner}
JsValues == JsScalars \cup JsFlat \cup JsNested

\* Encoded fields as Firestore's REST API sends them: numbers as
\* doubleValue or integerValue, an empty array without values, an empty
\* map without fields.
WireScalars ==
    {[nullValue |-> "null"], [stringValue |-> "a"], [doubleValue |-> 0],
     [doubleValue |-> 1], [integerValue |-> <<1>>],
     [integerValue |-> <<1, 0>>], [booleanValue |-> TRUE],
     [booleanValue |-> FALSE], [timestampValue |-> toISOString(0)]}
WireFlat ==
    {[arrayValue |-> [values |-> q]] : q \in SeqsUpTo(WireScalars, MaxItems)}
        \cup {[mapValue |-> [fields |-> o]] : o \in Objects(WireScalars)}
        \cup {[arrayValue |-> <<>>], [mapValue |-> <<>>]}
WireInner ==
    {[arrayValue |-> [values |-> <<x>>]] :
         x \in {[stringValue |-> "a"], [doubleValue |-> 1]}}
        \cup {[arrayValue |-> <<>>], [mapValue |-> <<>>]}
WireNested ==
    {[arrayValue |-> [values |-> <<x>>]] : x \in WireInner}
        \cup {[mapValue |-> [fields |-> [key \in {"tags"} |-> x]]] :
                  x \in WireInner}
WireFields == WireScalars \cup WireFlat \cup WireNested

\* A document as the server holds it, with the createdAt that
\* storeDataViaREST or addNote gave it.
OtherUid == "u2"
DocAt(nm, n, uid, t) ==
    [name |-> nm, id |-> n.id, isPrivate |-> n.isPrivate, title |-> n.title,
     userId |-> uid, createdAt |-> t]
DocsAt ==
    {DocAt(nm, Note(i, p, NewTitle), uid, t) :
         nm \in 1..MaxAdds, i \in 1..MaxAdds, p \in BOOLEAN,
         uid \in {Uid, OtherUid, NoUser}, t \in 1..MaxAdds}
Collections ==
    {c \in {{q[i] : i \in 1..Len(q)} : q \in SeqsUpTo(DocsAt, MaxAdds)} :
        \A d, e \in c : (d.name = e.name \/ d.id = e.id) => d = e}

\* The app itself is left out of these runs.
Parked ==
    /\ notes = <<>>
    /\ privateNotes = <<>>
    /\ loadingNotes = TRUE
    /\ syncWithCloud = TRUE
    /\ isUserSignedIn = FALSE
    /\ cacheNotes = Absent
    /\ cachePrivateNotes = Absent
    /\ syncKey = "absent"
    /\ authState = FALSE
    /\ userSignedOut = FALSE
    /\ remoteNotes = {}
    /\ remotePrivateNotes = {}
    /\ nextUuid = 1
    /\ nextDocId = 1
    /\ phase = "mounted"
    /\ listenerPending = TRUE
    /\ splashPending = TRUE
    /\ nEvents = 0
    /\ nRestarts = 0
    /\ unsynced = {}
    /\ createdPrivate = {}
    /\ last = Quiet("init")
    /\ pending = {}
    /\ landed = {}

appVars == <<notes, privateNotes, loadingNotes, syncWithCloud, isUserSignedIn,
             cacheNotes, cachePrivateNotes, syncKey, authState, userSignedOut,
             currentUser, remoteNotes, remotePrivateNotes, nextUuid,
             nextDocId, phase, listenerPending, splashPending, nEvents,
             nRestarts, unsynced, createdPrivate, last, pending, landed>>

\* A call is given a JavaScript value to encode and decode again, an
\* encoded field to decode and encode again, or a collection to list.
InitFn ==
    /\ Parked
    /\ \/ /\ currentUser = NoUser
          /\ \E v \in JsValues :
               call = [fn |-> "codec", from |-> "js", js |-> v, step |-> 0,
                       raised |-> FALSE]
       \/ /\ currentUser = NoUser
          /\ \E f \in WireFields :
               call = [fn |-> "codec", from |-> "wire", wire |-> f,
                       step |-> 0, raised |-> FALSE]
       \/ /\ currentUser \in {NoUser, Uid}
          /\ \E c \in Collections :
               call = [fn |-> "list", coll |-> c, done |-> FALSE]

\* convertToFirestoreValue(value)
Encode ==
    /\ call.fn = "codec"
    /\ ~call.raised
    /\ \/ /\ call.from = "js" /\ call.step = 0
          /\ call' = IF encoderThrows(call.js)
                     THEN [call EXCEPT !.step = 1, !.raised = TRUE]
                     ELSE [fn |-> "codec", from |-> "js", js |-> call.js,
                           step |-> 1, raised |-> FALSE,
                           wire |-> convertToFirestoreValue(call.js)]
       \/ /\ call.from = "wire" /\ call.step = 1
          /\ call' = [fn |-> "codec", from |-> "wire", wire |-> call.wire,
                      step |-> 2, raised |-> FALSE, js |-> call.js,
                      back |-> convertToFirestoreValue(call.js)]
    /\ UNCHANGED appVars

\* extractValueFromFirestoreField(field)
Decode ==
    /\ call.fn = "codec"
    /\ ~call.raised
    /\ \/ /\ call.from = "wire" /\ call.step = 0
          /\ call' = [fn |-> "codec", from |-> "wire", wire |-> call.wire,
                      step |-> 1, raised |-> FALSE,
                      js |-> extractValueFromFirestoreField(call.wire)]
       \/ /\ call.from = "js" /\ call.step = 1
          /\ call' = [fn |-> "codec", from |-> "js", js |-> call.js,
                      step |-> 2, raised |-> FALSE, wire |-> call.wire,
                      back |-> extractValueFromFirestoreField(call.wire)]
    /\ UNCHANGED appVars

\* getNotes() / getPrivateNotes() on the collection the server holds
GetNotes ==
    /\ call.fn = "list" /\ ~call.done
    /\ call' = [fn |-> "list", coll |-> call.coll, done |-> TRUE,
                private |-> FALSE, result |-> getNotes(call.coll, FALSE)]
    /\ UNCHANGED appVars

GetPrivateNotes ==
    /\ call.fn = "list" /\ ~call.done
    /\ call' = [fn |-> "list", coll |-> call.coll, done |-> TRUE,
                private |-> TRUE,
                result |-> getPrivateNotes(call.coll, FALSE)]
    /\ UNCHANGED appVars

NextFn == Encode \/ Decode \/ GetNotes \/ GetPrivateNotes

SpecFn == InitFn /\ [][NextFn]_vars

\* ------------------------------------------------ operations in flight
\* The operations of the context are async functions: each runs to its
\* first request, waits, and finishes when the answer is there, and other
\* handlers run in between.  Here loadNotes, refreshNotes and addNote are
\* two steps each, the call and the completion; pending holds the calls
\* that have not completed, with what their closure captured.  A call reads
\* the state as it is when it is made (React has rendered since the last
\* change).
LoadOp(remote) == [op |-> "load", remote |-> remote]
RefreshOp == [op |-> "refresh"]
AddOp(n, remote, snap, overlap) ==
    [op |-> "add", note |-> n, remote |-> remote, snap |-> snap,
     overlap |-> overlap]

\* The additions to one partition that have not completed.
Adds(p) == {o \in pending : o.op = "add" /\ o.note.isPrivate = p}

\* Record that the pending additions to p have another one beside them.
Marked(ops, p) ==
    {IF o.op = "add" /\ o.note.isPrivate = p
     THEN [o EXCEPT !.overlap = TRUE] ELSE o : o \in ops}

\* What no step of an operation in flight touches.
flightFixed == <<syncKey, authState, userSignedOut, currentUser,
                 splashPending, nEvents, nRestarts, unsynced,
                 createdPrivate, call>>

\* NotesProvider has been constructed on a device that ran the app before:
\* the caches exist, the Firebase session is live or there is none.
InitFlight ==
    /\ notes = <<>>
    /\ privateNotes = <<>>
    /\ loadingNotes = TRUE
    /\ syncWithCloud = TRUE
    /\ isUserSignedIn = FALSE
    /\ \E u \in {NoUser, Uid} :
          /\ currentUser = u
          /\ authState = (u # NoUser)
    /\ cacheNotes = Stored(<<>>)
    /\ cachePrivateNotes = Stored(<<>>)
    /\ syncKey = "absent"
    /\ userSignedOut = FALSE
    /\ remoteNotes = {}
    /\ remotePrivateNotes = {}
    /\ nextUuid = 1
    /\ nextDocId = 1
    /\ phase = "mounted"
    /\ listenerPending = TRUE
    /\ splashPending = FALSE
    /\ nEvents = 0
    /\ nRestarts = 0
    /\ unsynced = {}
    /\ createdPrivate = {}
    /\ last = Quiet("init")
    /\ call = NoCall
    /\ pending = {}
    /\ landed = {}

\* loadNotes up to its first request: the flag, the storage keys, the two
\* state setters; then it waits for getNotes (or for the storage).
LoadStart ==
    LET shouldSync == syncKey # "false" /\ ~userSignedOut
        userSignedIn == (currentUser # NoUser \/ authState) /\ ~userSignedOut
    IN
    /\ phase = "mounted"
    /\ phase' = "loading"
    /\ loadingNotes' = TRUE
    /\ syncWithCloud' = shouldSync
    /\ isUserSignedIn' = userSignedIn
    /\ pending' = pending \cup {LoadOp(shouldSync /\ userSignedIn)}
    /\ last' = Quiet("loadStart")
    /\ UNCHANGED <<notes, privateNotes, cacheVars, remoteVars, nextUuid,
                   listenerPending, landed, flightFixed>>

\* loadNotes from the answers on: the lists, the caches, the finally block.
LoadEnd(f1, f2, sf) ==
    \E o \in pending :
      LET fN == getNotes(remoteNotes, f1)
          fP == getPrivateNotes(remotePrivateNotes, f2)
          locN == IF cacheNotes.has THEN cacheNotes.val ELSE <<>>
          locP == IF cachePrivateNotes.has THEN cachePrivateNotes.val
                  ELSE <<>>
          stopped == sf /\ ~cacheNotes.has
      IN
      /\ o.op = "load"
      /\ (f1 \/ f2) => (o.remote /\ currentUser # NoUser)
      /\ IF o.remote /\ ~sf
         THEN /\ notes' = fN
              /\ privateNotes' = fP
              /\ cacheNotes' = Stored(fN)
              /\ cachePrivateNotes' = Stored(fP)
         ELSE /\ notes' = locN
              /\ privateNotes' = IF stopped
                                 THEN (IF o.remote THEN fP ELSE privateNotes)
                                 ELSE locP
              /\ cacheNotes' = IF sf THEN cacheNotes ELSE Stored(locN)
              /\ cachePrivateNotes' = IF sf THEN cachePrivateNotes
                                      ELSE Stored(locP)
      /\ loadingNotes' = loadingAfter(sf)
      /\ phase' = "ready"
      /\ pending' = pending \ {o}
      /\ landed' = {}
      /\ last' = Obs("load", NoNote, FALSE, "none",
                     IF o.remote THEN 2 * FetchRequests ELSE 0,
                     o.remote /\ (f1 \/ f2 \/ currentUser = NoUser),
                     f1 \/ f2, sf)
      /\ UNCHANGED <<syncWithCloud, isUserSignedIn, remoteVars, nextUuid,
                     listenerPending, flightFixed>>

LoadCompletes == \E f1, f2, sf \in BOOLEAN : LoadEnd(f1, f2, sf)

\* HomeScreen's loadData effect (it runs again whenever syncWithCloud or
\* isUserSignedIn change) and its pull-to-refresh call refreshNotes; past
\* the guard the flag is set and the call waits for getNotes.
RefreshStart ==
    /\ phase \in {"loading", "ready"}
    /\ ~refreshReturnsEarly
    /\ RefreshOp \notin pending
    /\ loadingNotes' = TRUE
    /\ pending' = pending \cup {RefreshOp}
    /\ last' = Quiet("refreshStart")
    /\ UNCHANGED <<notes, privateNotes, syncWithCloud, isUserSignedIn,
                   cacheVars, remoteVars, nextUuid, phase, listenerPending,
                   landed, flightFixed>>

\* refreshNotes from the answers on.
RefreshEnd(f1, f2, sf) ==
    /\ RefreshOp \in pending
    /\ (f1 \/ f2) => currentUser # NoUser
    /\ Refreshed(remoteNotes, remotePrivateNotes, f1, f2, sf)
    /\ pending' = pending \ {RefreshOp}
    /\ landed' = {}
    /\ last' = Obs("refresh", NoNote, FALSE, "none", 2 * FetchRequests,
                   f1 \/ f2 \/ currentUser = NoUser, f1 \/ f2, sf)
    /\ UNCHANGED <<syncWithCloud, isUserSignedIn, remoteVars, nextUuid,
                   phase, listenerPending, flightFixed>>

RefreshCompletes == \E f1, f2, sf \in BOOLEAN : RefreshEnd(f1, f2, sf)

\* addNote(n) up to its first await.  On the remote path that is the POST,
\* and the closure keeps the list of the render it was made in; on the
\* local path the list is already set and the call waits for its save.
AddStart(n) ==
    LET p == n.isPrivate
        list == IF p THEN privateNotes ELSE notes
        remote == RemotePath /\ currentUser # NoUser
        overlap == Adds(p) # {}
    IN
    /\ phase = "ready"
    /\ n.id = nextUuid
    /\ nextUuid <= MaxAdds
    /\ nextUuid' = nextUuid + 1
    /\ IF remote
       THEN /\ pending' = Marked(pending, p)
                              \cup {AddOp(n, TRUE, list, overlap)}
            /\ UNCHANGED <<notes, privateNotes>>
       ELSE /\ pending' = Marked(pending, p)
                              \cup {AddOp(n, FALSE, <<n>> \o list, overlap)}
            /\ IF p
               THEN privateNotes' = <<n>> \o list /\ UNCHANGED notes
               ELSE notes' = <<n>> \o list /\ UNCHANGED privateNotes
    /\ last' = Quiet("addStart")
    /\ UNCHANGED <<loadingNotes, syncWithCloud, isUserSignedIn, cacheVars,
                   remoteVars, phase, listenerPending, landed, flightFixed>>

AddStarts == \E p \in BOOLEAN : AddStart(Note(nextUuid, p, NewTitle))

\* addNote from the answer on.  Remote path, POST succeeded: the list is
\* set with an updater function, the cache is written from the closure's
\* list.  POST failed: the catch sets list and cache from the closure's
\* list.  Local path: the save of the list lands; the storage applies the
\* saves in the order they were issued.
AddEnd(o, fails, sf) ==
    LET n == o.note
        p == n.isPrivate
        list == IF p THEN privateNotes ELSE notes
        key == IF p THEN cachePrivateNotes ELSE cacheNotes
        remoteOk == o.remote /\ ~fails
        docName == ServerName(nextDocId)
        kept == IF remoteOk THEN [n EXCEPT !.id = docName] ELSE n
        listAfter == IF remoteOk THEN <<kept>> \o list
                     ELSE IF o.remote THEN <<n>> \o o.snap
                     ELSE list
        keyAfter == Written(key, IF o.remote THEN <<kept>> \o o.snap
                                 ELSE o.snap, sf)
    IN
    /\ o \in pending
    /\ o.op = "add"
    /\ fails => o.remote
    /\ ~o.remote =>
          \A e \in pending :
              (e.op = "add" /\ ~e.remote) => e.note.id >= n.id
    /\ IF p
       THEN /\ privateNotes' = listAfter
            /\ cachePrivateNotes' = keyAfter
            /\ UNCHANGED <<notes, cacheNotes>>
       ELSE /\ notes' = listAfter
            /\ cacheNotes' = keyAfter
            /\ UNCHANGED <<privateNotes, cachePrivateNotes>>
    /\ IF remoteOk
       THEN /\ nextDocId' = nextDocId + 1
            /\ IF CollectionOf(n)
               THEN /\ remotePrivateNotes' =
                        PostDoc(remotePrivateNotes, docName, n, currentUser)
                    /\ UNCHANGED remoteNotes
               ELSE /\ remoteNotes' =
                        PostDoc(remoteNotes, docName, n, currentUser)
                    /\ UNCHANGED remotePrivateNotes
       ELSE UNCHANGED remoteVars
    /\ pending' = pending \ {o}
    /\ landed' = IF sf THEN landed
                 ELSE landed \cup {[note |-> kept, overlap |-> o.overlap]}
    /\ last' = [Obs("add", n, o.remote /\ fails, "none",
                    IF o.remote THEN 1 ELSE 0, o.remote /\ fails, fails, sf)
                   EXCEPT !.saved = kept]
    /\ UNCHANGED <<loadingNotes, syncWithCloud, isUserSignedIn, nextUuid,
                   phase, listenerPending, flightFixed>>

AddCompletes ==
    \E o \in pending : \E fails, sf \in BOOLEAN : AddEnd(o, fails, sf)

\* The first call of the onAuthStateChanged listener, whenever it comes.
AuthStateArrives ==
    /\ AuthStateChanged
    /\ UNCHANGED <<nEvents, nRestarts, call, pending, landed>>

NextFlight ==
    \/ LoadStart
    \/ LoadCompletes
    \/ RefreshStart
    \/ RefreshCompletes
    \/ AddStarts
    \/ AddCompletes
    \/ AuthStateArrives

SpecFlight == InitFlight /\ [][NextFlight]_vars

\* Every request is answered or fails and every storage call settles, so a
\* call that waits is resumed.
FairFlight ==
    /\ SpecFlight
    /\ WF_vars(LoadCompletes)
    /\ WF_vars(RefreshCompletes)
    /\ WF_vars(AddCompletes)


\* ------------------------------------------------------------ properties
\* The vocabulary of the properties: list() of a partition, the cache key
\* of a partition read as getItem + JSON.parse would ([] when absent).
ListOf(p, pub, priv) == IF p THEN priv ELSE pub
CacheList(key) == IF key.has THEN key.val ELSE <<>>
\* The entries of a list that are the note n as addNote was given it or as
\* the remote create returned it (the same note under the server's id).
Copies(list, n, s) ==
    Cardinality({k \in 1..Len(list) : list[k] = n \/ list[k] = s})

\* C1: when addNote(n) runs with syncWithCloud && isUserSignedIn and the
\* remote create fails, then after the call the in-memory list of n's
\* partition contains n, the call has thrown to its caller and, the storage
\* having taken the write, the cache key of that partition contains n.
C1_FailedCreateKeepsNoteAndRaises ==
    (last.op = "add" /\ syncWithCloud /\ isUserSignedIn /\ last.remoteFailed)
        => /\ Has(ListOf(last.note.isPrivate, notes, privateNotes), last.note)
           /\ last.raised
           /\ ~last.storageFailed =>
                  Has(CacheList(ListOf(last.note.isPrivate, cacheNotes,
                                       cachePrivateNotes)), last.note)

\* C1 witness: a POST that failed, the note in the list and in the cache,
\* the error thrown.
C1_Witness ==
    /\ last.op = "add" /\ syncWithCloud /\ isUserSignedIn
    /\ last.requestFailed /\ ~last.storageFailed /\ last.raised
    /\ Has(ListOf(last.note.isPrivate, notes, privateNotes), last.note)
    /\ Has(CacheList(ListOf(last.note.isPrivate, cacheNotes,
                            cachePrivateNotes)), last.note)

\* C2: whenever a fetch fails during loadNotes or refreshNotes on the remote
\* path, the in-memory lists afterwards equal what the cache keys held
\* before the operation (empty lists when absent) and the cache keys hold
\* what they held before.
C2_FailedReadFallsBackToCache ==
    [][(last'.op \in {"load", "refresh"} /\ last'.requestFailed)
         => /\ notes' = CacheList(cacheNotes)
            /\ privateNotes' = CacheList(cachePrivateNotes)
            /\ CacheList(cacheNotes') = CacheList(cacheNotes)
            /\ CacheList(cachePrivateNotes') = CacheList(cachePrivateNotes)
      ]_vars

\* C3: a note that addNote or updateNote applied to the list and the cache
\* because the remote write failed is still in the list and in the cache
\* after every later refreshNotes, loadNotes and handleSyncWithCloud.
C3_EditNeverLost ==
    last.op \in {"refresh", "load", "setSync"}
        => \A n \in unsynced :
              /\ Has(ListOf(n.isPrivate, notes, privateNotes), n)
              /\ Has(CacheList(ListOf(n.isPrivate, cacheNotes,
                                      cachePrivateNotes)), n)

\* C4: in every reachable state every note of the public list, the public
\* cache key and the remote notes collection has isPrivate = false, every
\* note of the private list, the private cache key and the remote
\* privateNotes collection has isPrivate = true, and no note created with
\* isPrivate = true is in the public list.
C4_PartitionInvariant ==
    /\ \A k \in 1..Len(notes) : notes[k].isPrivate = FALSE
    /\ \A k \in 1..Len(privateNotes) : privateNotes[k].isPrivate = TRUE
    /\ \A k \in 1..Len(cacheNotes.val) : cacheNotes.val[k].isPrivate = FALSE
    /\ \A k \in 1..Len(cachePrivateNotes.val) :
           cachePrivateNotes.val[k].isPrivate = TRUE
    /\ \A d \in remoteNotes : d.isPrivate = FALSE
    /\ \A d \in remotePrivateNotes : d.isPrivate = TRUE
    /\ Ids(notes) \cap createdPrivate = {}

\* C4 witness: both partitions populated in memory, in the cache and on the
\* server, after an update.
C4_Witness ==
    /\ last.op = "update"
    /\ notes # <<>> /\ privateNotes # <<>>
    /\ cacheNotes.val # <<>> /\ cachePrivateNotes.val # <<>>
    /\ remoteNotes # {} /\ remotePrivateNotes # {}
    /\ createdPrivate # {}

\* C5: for a note held under some id and any n' with that id, whatever
\* fields n' changes, after updateNote(n') the lists hold n', hold no other
\* version under that id, and hold as many notes as before.
C5_UpdateReplaces ==
    [][last'.op = "update"
         => /\ Has(ListOf(last'.note.isPrivate, notes', privateNotes'),
                   last'.note)
            /\ \A k \in 1..Len(notes') :
                   notes'[k].id = last'.note.id => notes'[k] = last'.note
            /\ \A k \in 1..Len(privateNotes') :
                   privateNotes'[k].id = last'.note.id
                       => privateNotes'[k] = last'.note
            /\ Len(notes') + Len(privateNotes')
                   = Len(notes) + Len(privateNotes)
      ]_vars

\* C6: after addNote(n) the list of n's partition holds n exactly once: the
\* in-memory list and the cache key right after the call, and the list a
\* following refreshNotes fetches while sync is active.
C6_AddedExactlyOnce ==
    [][/\ (last'.op = "add" /\ ~last'.storageFailed)
            => /\ Copies(ListOf(last'.note.isPrivate, notes', privateNotes'),
                         last'.note, last'.saved) = 1
               /\ Copies(CacheList(ListOf(last'.note.isPrivate, cacheNotes',
                                          cachePrivateNotes')),
                         last'.note, last'.saved) = 1
       /\ (/\ last.op = "add" /\ last'.op = "refresh"
           /\ syncWithCloud /\ isUserSignedIn
           /\ ~last'.requestFailed /\ ~last'.storageFailed)
            => Copies(ListOf(last.note.isPrivate, notes', privateNotes'),
                      last.note, last.saved) = 1
      ]_vars

\* C7: for an id present in a partition, after deleteNote(id) the list of
\* that partition does not contain the id and holds exactly one note fewer
\* than before.
C7_DeleteRemovesExactlyOne ==
    [][(last'.op = "delete" /\ FindNote(last'.note.id) # <<>>)
         => /\ last'.note.id \notin
                   Ids(ListOf(last'.note.isPrivate, notes', privateNotes'))
            /\ Len(ListOf(last'.note.isPrivate, notes', privateNotes'))
                   = Len(ListOf(last'.note.isPrivate, notes, privateNotes)) - 1
      ]_vars

\* C8: deleteNote(id) for an id in neither list throws 'Note not found', an
\* error no other outcome of an operation carries, sends no request and
\* leaves both lists, both cache keys and both collections as they were.
C8_DeleteMissingIsRefused ==
    [][/\ (last'.op = "delete" /\ FindNote(last'.note.id) = <<>>)
            => /\ last'.raised
               /\ last'.error = "Note not found"
               /\ last'.reqs = 0
               /\ UNCHANGED <<notes, privateNotes, cacheNotes,
                              cachePrivateNotes, remoteNotes,
                              remotePrivateNotes>>
       /\ last'.error = "Note not found"
            => (last'.op = "delete" /\ FindNote(last'.note.id) = <<>>)
      ]_vars

\* C8 witness: a delete refused with 'Note not found' while notes are held.
C8_Witness ==
    /\ last.op = "delete" /\ last.raised /\ last.error = "Note not found"
    /\ last.reqs = 0
    /\ notes # <<>> /\ privateNotes # <<>>

\* C9: with no user signed in and sync enabled, loadNotes yields the cache
\* contents and leaves them as they were, and addNote(n) sends no request,
\* puts n into the list of its partition and nowhere else and, the storage
\* having taken the write, puts n into the cache key of that partition and
\* does not throw.
C9_SignedOutStaysLocal ==
    [][/\ (/\ last'.op = "load" /\ syncWithCloud' /\ ~isUserSignedIn'
           /\ ~last'.storageFailed)
            => /\ notes' = CacheList(cacheNotes)
               /\ privateNotes' = CacheList(cachePrivateNotes)
               /\ CacheList(cacheNotes') = CacheList(cacheNotes)
               /\ CacheList(cachePrivateNotes') = CacheList(cachePrivateNotes)
               /\ last'.reqs = 0
               /\ UNCHANGED <<remoteNotes, remotePrivateNotes>>
       /\ (last'.op = "add" /\ syncWithCloud /\ ~isUserSignedIn)
            => /\ last'.reqs = 0
               /\ UNCHANGED <<remoteNotes, remotePrivateNotes>>
               /\ ListOf(last'.note.isPrivate, notes', privateNotes')
                    = <<last'.note>>
                       \o ListOf(last'.note.isPrivate, notes, privateNotes)
               /\ ListOf(~last'.note.isPrivate, notes', privateNotes')
                    = ListOf(~last'.note.isPrivate, notes, privateNotes)
               /\ ListOf(~last'.note.isPrivate, cacheNotes',
                         cachePrivateNotes')
                    = ListOf(~last'.note.isPrivate, cacheNotes,
                             cachePrivateNotes)
               /\ ~last'.storageFailed
                    => /\ ~last'.raised
                       /\ ListOf(last'.note.isPrivate, cacheNotes',
                                 cachePrivateNotes')
                            = Stored(ListOf(last'.note.isPrivate, notes',
                                            privateNotes'))
      ]_vars

\* C9 witness: after a restart whose loadNotes read a note from the cache,
\* a note added locally with sync enabled and nobody signed in.
C9_Witness ==
    /\ last.op = "add" /\ syncWithCloud /\ ~isUserSignedIn
    /\ ~last.raised /\ last.reqs = 0
    /\ nRestarts = 1
    /\ Len(ListOf(last.note.isPrivate, notes, privateNotes)) = 2
    /\ ListOf(last.note.isPrivate, cacheNotes, cachePrivateNotes)
         = Stored(ListOf(last.note.isPrivate, notes, privateNotes))
    /\ remoteNotes = {} /\ remotePrivateNotes = {}

\* C10: handleSyncWithCloud(true) with isUserSignedIn false enables sync,
\* persists the flag when the storage takes the write, and makes no remote
\* call: no batch PATCH, no fetch, lists and caches as they were.
C10_EnableSignedOutIsLocal ==
    [][(last'.op = "setSync" /\ last'.value /\ ~isUserSignedIn)
         => /\ syncWithCloud'
            /\ ~last'.storageFailed => syncKey' = "true"
            /\ last'.reqs = 0
            /\ UNCHANGED <<remoteNotes, remotePrivateNotes, notes,
                           privateNotes, cacheNotes, cachePrivateNotes>>
      ]_vars

\* C10 witness: sync enabled and persisted with nobody signed in while a
\* note is held that a push would have sent.
C10_Witness ==
    /\ last.op = "setSync" /\ last.value /\ ~isUserSignedIn
    /\ syncWithCloud /\ syncKey = "true" /\ last.reqs = 0
    /\ notes # <<>>

\* C11: handleSyncWithCloud(true) called while isUserSignedIn is true and
\* syncWithCloud was false persists sync_enabled = 'true', sends one PATCH
\* for every note held in either list and, before it returns, calls
\* getNotes and getPrivateNotes to reload.
C11_EnableSignedInPushesAndReloads ==
    [][(/\ last'.op = "setSync" /\ last'.value
        /\ isUserSignedIn /\ ~syncWithCloud
        /\ ~last'.storageFailed)
         => /\ syncKey' = "true"
            /\ last'.reqs - last'.gets = Len(notes) + Len(privateNotes)
            /\ last'.fetches = 2
      ]_vars

\* The notes held have pairwise distinct ids.
DistinctIds(pub, priv) ==
    \A i, j \in 1..Len(pub \o priv) :
        (pub \o priv)[i].id = (pub \o priv)[j].id => i = j
\* The documents of a collection match a list one to one: one document per
\* note, named by the note's id and holding its fields.
Matches(coll, list) ==
    /\ Cardinality(coll) = Len(list)
    /\ \A k \in 1..Len(list) :
           \E d \in coll : d.name = list[k].id /\ AsNote(d) = list[k]
    /\ \A d \in coll :
           \E k \in 1..Len(list) : d.name = list[k].id /\ AsNote(d) = list[k]
\* Two lists hold the same notes, each as often.
SameNotes(a, b) ==
    /\ Len(a) = Len(b)
    /\ {a[k] : k \in 1..Len(a)} = {b[k] : k \in 1..Len(b)}

\* C12: with k notes of distinct ids held and both collections empty,
\* handleSyncWithCloud(true) of a signed-in user whose requests succeed
\* leaves exactly k documents matching the held notes one to one, written
\* by the current user; a refreshNotes after it returns those same k notes;
\* and a batch push of notes the collections already match leaves the
\* number of documents as it was.
C12_BatchUpsertIsIdempotent ==
    [][/\ (/\ last'.op = "setSync" /\ last'.value /\ isUserSignedIn
           /\ ~last'.storageFailed /\ ~last'.requestFailed
           /\ remoteNotes = {} /\ remotePrivateNotes = {}
           /\ DistinctIds(notes, privateNotes))
            => /\ Matches(remoteNotes', notes)
               /\ Matches(remotePrivateNotes', privateNotes)
               /\ \A d \in remoteNotes' \cup remotePrivateNotes' :
                      d.userId = currentUser
       /\ (/\ last.op = "setSync" /\ last.value
           /\ last'.op = "refresh" /\ last'.fetches = 2
           /\ ~last'.requestFailed /\ currentUser # NoUser
           /\ DistinctIds(notes, privateNotes)
           /\ Matches(remoteNotes, notes)
           /\ Matches(remotePrivateNotes, privateNotes)
           /\ \A d \in remoteNotes \cup remotePrivateNotes :
                  d.userId = currentUser)
            => /\ SameNotes(notes', notes)
               /\ SameNotes(privateNotes', privateNotes)
               /\ Matches(remoteNotes', notes')
               /\ Matches(remotePrivateNotes', privateNotes')
       /\ (/\ last'.op = "setSync" /\ last'.value /\ isUserSignedIn
           /\ ~last'.storageFailed /\ ~last'.requestFailed
           /\ DistinctIds(notes, privateNotes)
           /\ Matches(remoteNotes, notes)
           /\ Matches(remotePrivateNotes, privateNotes))
            => /\ Cardinality(remoteNotes') = Cardinality(remoteNotes)
               /\ Cardinality(remotePrivateNotes')
                      = Cardinality(remotePrivateNotes)
      ]_vars

\* C12 witness: two notes that were only held locally, pushed by the batch
\* (the server never named a document) and read back by refreshNotes.
C12_Witness ==
    /\ last.op = "refresh" /\ last.fetches = 2 /\ ~last.requestFailed
    /\ nextDocId = 1
    /\ Len(notes) + Len(privateNotes) = 2
    /\ Matches(remoteNotes, notes)
    /\ Matches(remotePrivateNotes, privateNotes)

\* C13: batchSyncNotes sends its PATCHes chunk after chunk (one request per
\* note); when one of them fails, the documents that were stored stay
\* stored and batchSyncNotes throws to its caller instead of returning
\* normally.
C13_BatchFailureIsRaised ==
    [][(last'.op = "setSync" /\ last'.failedWrites > 0)
         => /\ last'.reqs - last'.gets = Len(notes) + Len(privateNotes)
            /\ \A d \in remoteNotes :
                   \E e \in remoteNotes' : e.name = d.name
            /\ \A d \in remotePrivateNotes :
                   \E e \in remotePrivateNotes' : e.name = d.name
            /\ last'.clientError # "none"
      ]_vars
\* C14: with no current user the remote list of either partition returns
\* the empty list, does not throw and sends no request: an operation that
\* lists both partitions (loadNotes, refreshNotes, the reload of
\* handleSyncWithCloud) without a user ends with both lists empty, no GET
\* sent and nothing raised, whatever the remote collections hold.
C14_ListWithoutSessionIsEmpty ==
    [][(/\ last'.fetches > 0
        /\ currentUser = NoUser
        /\ ~last'.storageFailed)
         => /\ notes' = <<>>
            /\ privateNotes' = <<>>
            /\ last'.gets = 0
            /\ ~last'.raised
      ]_vars

\* refreshNotes listed both partitions without a user while the remote
\* store held a document: no request, empty lists.
C14_Witness ==
    /\ last.op = "refresh"
    /\ last.fetches = 2
    /\ last.gets = 0
    /\ currentUser = NoUser
    /\ remoteNotes \cup remotePrivateNotes # {}
    /\ notes = <<>> /\ privateNotes = <<>>
    /\ ~last.raised

\* C15: every mutating operation of the remote client (create, update,
\* delete, batch upsert) attempted with no active session raises
\* 'User not authenticated' at once and sends no request: the remote
\* collections are left as they were.
C15_WritesWithoutSessionRaise ==
    [][(/\ currentUser = NoUser
        /\ \/ last'.op \in {"add", "update"} /\ RemotePath
           \/ /\ last'.op = "delete" /\ RemotePath
              /\ last'.error # "Note not found"
           \/ /\ last'.op = "setSync" /\ last'.value /\ isUserSignedIn
              /\ ~last'.storageFailed
              /\ Len(notes) + Len(privateNotes) > 0)
         => /\ last'.clientError = "User not authenticated"
            /\ last'.reqs = 0
            /\ UNCHANGED <<remoteNotes, remotePrivateNotes>>
      ]_vars

\* C16: the explicit sign-out marker overrides the other signals: once the
\* initial load has finished, user_signed_out 'true' implies that
\* isUserSignedIn is false, whatever Firebase reports and whether or not
\* the listener has fired.
C16_MarkerOverrides ==
    (phase = "ready" /\ userSignedOut) => ~isUserSignedIn

\* C17: once the initial load has finished and the marker is not set, the
\* persisted auth flag 'true' implies isUserSignedIn, also when the listener
\* reported no user, and a live Firebase session implies isUserSignedIn.
C17_FlagOrSessionMeansSignedIn ==
    (phase = "ready" /\ ~userSignedOut)
        => /\ authState => isUserSignedIn
           /\ currentUser # NoUser => isUserSignedIn

\* C18: every document of the remote notes and privateNotes collections
\* carries the owner field userId of the session that wrote it (the model
\* has one account, Uid).
C18_DocumentsCarryOwner ==
    \A d \in remoteNotes \cup remotePrivateNotes : d.userId = Uid

\* C19: addNote, updateNote and deleteNote with syncWithCloud and
\* isUserSignedIn go to the remote store first: one request is sent under a
\* live session, and the note addNote keeps carries the name of the document
\* just created.  When the remote part of updateNote or deleteNote fails,
\* the same mutation is still applied to the list and written to its cache
\* key, and the remote error is raised to the caller.
C19_RemoteFirstThenLocal ==
    [][(/\ last'.op \in {"add", "update", "delete"}
        /\ RemotePath
        /\ last'.error # "Note not found")
         => LET n == last'.note
                before == ListOf(n.isPrivate, notes, privateNotes)
                after == ListOf(n.isPrivate, notes', privateNotes')
                key == IF n.isPrivate THEN cachePrivateNotes' ELSE cacheNotes'
                created == (remoteNotes' \cup remotePrivateNotes')
                               \ (remoteNotes \cup remotePrivateNotes)
            IN
            /\ last'.reqs = (IF currentUser = NoUser THEN 0 ELSE 1)
            /\ (last'.op = "add" /\ ~last'.remoteFailed)
                   => \E d \in created : d.name = last'.saved.id
            /\ (last'.op \in {"update", "delete"} /\ last'.remoteFailed)
                   => /\ after = (IF last'.op = "update"
                                  THEN MapReplace(before, n)
                                  ELSE SelectSeq(before, LAMBDA x : x.id # n.id))
                      /\ last'.raised
                      /\ ~last'.storageFailed
                            => /\ key = Stored(after)
                               /\ last'.error = last'.clientError
                               /\ last'.error # "none"
      ]_vars

\* An updateNote whose PATCH failed: the edit is in the list and in the
\* cache, and the caller got 'Failed to update note'.
C19_Witness ==
    /\ last.op = "update"
    /\ last.requestFailed
    /\ last.raised
    /\ last.error = "Failed to update note"
    /\ Has(ListOf(last.note.isPrivate, notes, privateNotes), last.note)
    /\ Has(CacheList(IF last.note.isPrivate THEN cachePrivateNotes
                     ELSE cacheNotes), last.note)

\* C20: no remote or storage error inside loadNotes, refreshNotes, addNote,
\* updateNote, deleteNote or handleSyncWithCloud is swallowed: an operation
\* in which a request or a storage write failed raises to its caller.
C20_NoErrorIsSwallowed ==
    (/\ last.op \in {"load", "refresh", "add", "update", "delete", "setSync"}
     /\ (last.requestFailed \/ last.storageFailed))
        => last.raised

\* C21: the list and its cache are updated together: once loadNotes has
\* run, between any two operations the notes key reads as exactly the
\* list notes and the private key as exactly the list privateNotes.
C21_CacheMatchesMemory ==
    phase = "ready"
        => /\ CacheList(cacheNotes) = notes
           /\ CacheList(cachePrivateNotes) = privateNotes

\* C23: refreshNotes called while sync is off or nobody is signed in does
\* nothing: no request is sent, and notes, privateNotes, both cache keys and
\* loadingNotes are left as they were.
C23_RefreshIsNoOpWhenLocal ==
    [][(last'.op = "refresh" /\ (~syncWithCloud \/ ~isUserSignedIn))
         => /\ last'.reqs = 0
            /\ last'.fetches = 0
            /\ UNCHANGED <<notes, privateNotes, cacheNotes, cachePrivateNotes,
                           loadingNotes>>
      ]_vars

\* refreshNotes returned at its guard, signed out with sync still on, while
\* a list held a note.
C23_Witness ==
    /\ last.op = "refresh"
    /\ last.fetches = 0
    /\ syncWithCloud /\ ~isUserSignedIn
    /\ Len(notes) + Len(privateNotes) > 0

\* C27: every note the remote list returns has for id the name of the
\* document that holds it, so that updateNote and deleteNote by that id hit
\* the existing document: after a load or refresh that listed both
\* partitions successfully, each listed note is held by the document of
\* its id's name.
C27_ListedIdIsDocumentName ==
    (/\ last.op \in {"load", "refresh"}
     /\ last.gets = 2
     /\ ~last.requestFailed /\ ~last.storageFailed)
        => /\ \A i \in 1..Len(notes) :
                  \E d \in remoteNotes :
                      d.name = notes[i].id /\ AsNote(d) = notes[i]
           /\ \A i \in 1..Len(privateNotes) :
                  \E d \in remotePrivateNotes :
                      d.name = privateNotes[i].id /\ AsNote(d) = privateNotes[i]

\* C28: a sign-in after an explicit sign-out clears the user_signed_out
\* marker in time for the next start: a loadNotes that runs while Firebase
\* holds a live session ends with isUserSignedIn true.
C28_NextStartIsSignedIn ==
    [][(last'.op = "load" /\ currentUser # NoUser) => isUserSignedIn']_vars

\* A value built from the kinds the codec supports only: null, string,
\* number, boolean, timestamp, array, nested map.
RECURSIVE Representable(_)
Representable(v) ==
    /\ v.k \notin {"undefined", "symbol", "invalidDate"}
    /\ v.k = "array" => \A i \in 1..Len(v.items) : Representable(v.items[i])
    /\ v.k = "object"
          => \A key \in DOMAIN v.props : Representable(v.props[key])

\* A value of a type the encoder has no case for, or one that holds such.
RECURSIVE Unsupported(_)
Unsupported(v) ==
    \/ v.k = "symbol"
    \/ v.k = "array" /\ \E i \in 1..Len(v.items) : Unsupported(v.items[i])
    \/ v.k = "object" /\ \E key \in DOMAIN v.props : Unsupported(v.props[key])

\* C24: the codec round-trips: decoding the encoding of a representable
\* value gives the value back, and encoding the decoding of a well-formed
\* encoded field gives the field back.
C24_CodecRoundTrips ==
    (call.fn = "codec" /\ call.step = 2)
        => IF call.from = "js"
           THEN Representable(call.js) => call.back = call.js
           ELSE call.back = call.wire

\* C25: a value of an unsupported type makes the encoder raise and produce
\* no encoded field; it is never turned into a string.
C25_UnsupportedValueRaises ==
    (/\ call.fn = "codec" /\ call.from = "js" /\ call.step >= 1
     /\ Unsupported(call.js))
        => call.raised /\ "wire" \notin DOMAIN call

\* C26: the remote list of a partition returns only documents of the
\* current user whose isPrivate is the partition's, ordered by creation
\* time, newest first.
C26_ListIsFilteredAndNewestFirst ==
    (call.fn = "list" /\ call.done)
        => LET held(n) == CHOOSE d \in call.coll : d.id = n.id
               res == call.result
           IN /\ \A i \in 1..Len(res) :
                     /\ held(res[i]).userId = currentUser
                     /\ held(res[i]).isPrivate = call.private
              /\ \A i, j \in 1..Len(res) :
                     i < j => held(res[i]).createdAt >= held(res[j]).createdAt

\* C22: at no time are two operations that write the in-memory lists (a
\* load, a refresh, an addition) both started and not yet completed.
C22_OneListWriterAtATime == Cardinality(pending) <= 1

\* C29: once no addition is in flight, every note that was added while
\* another addition to its partition was in flight is in the in-memory
\* list and in the cache of its partition (no load or refresh has replaced
\* the lists since, and its own cache write was not rejected).
C29_OverlappingAddsKeepBoth ==
    (Adds(TRUE) \cup Adds(FALSE) = {}) =>
        \A a \in landed :
            a.overlap =>
                /\ Has(ListOf(a.note.isPrivate, notes, privateNotes), a.note)
                /\ Has(ListOf(a.note.isPrivate, CacheList(cacheNotes),
                              CacheList(cachePrivateNotes)), a.note)

\* C30: a load that has started and a refresh that has started each come to
\* an end with the loading flag false, whatever requests and storage writes
\* fail on the way.
C30_LoadingEnds ==
    /\ (\E o \in pending : o.op = "load")
           ~> ((\A o \in pending : o.op # "load") /\ ~loadingNotes)
    /\ (RefreshOp \in pending)
           ~> (RefreshOp \notin pending /\ ~loadingNotes)

\* A refresh whose requests and storage writes all failed has ended, nothing
\* else is in flight, and the flag is false.
C30_Witness ==
    /\ last.op = "refresh"
    /\ last.requestFailed
    /\ last.storageFailed
    /\ pending = {}
    /\ ~loadingNotes

====
